---- MODULE Spec2Model ----
(***************************************************************************)
(* Interval bound propagation (bounds.py): AbstractBounds.propagate_through *)
(* and IntervalBounds.  Tensors are dense row-major arrays of exact         *)
(* rationals; a Python value held in _lower/_upper is either one tensor or  *)
(* a tuple of tensors.                                                      *)
(***************************************************************************)
EXTENDS Integers, Sequences, FiniteSets, TLC

\* ------------------------------------------------------------------------
\* Exact rational scalars <<numerator, denominator>>, denominator > 0,
\* lowest terms (every tensor element is one of these).
\* ------------------------------------------------------------------------
RECURSIVE Gcd(_, _)
Gcd(a, b) ==
  IF b = 0 THEN a ELSE Gcd(b, a % b)

IAbs(n) ==
  IF n < 0 THEN -n ELSE n

Rat(n, d) ==
  LET g == Gcd(IAbs(n), IAbs(d))
      s == IF d < 0 THEN -1 ELSE 1
  IN  <<(s * n) \div g, (s * d) \div g>>

Q(n) ==
  <<n, 1>>

RAdd(a, b) ==
  Rat(a[1] * b[2] + b[1] * a[2], a[2] * b[2])

RSub(a, b) ==
  Rat(a[1] * b[2] - b[1] * a[2], a[2] * b[2])

RMul(a, b) ==
  Rat(a[1] * b[1], a[2] * b[2])

RNeg(a) ==
  <<-a[1], a[2]>>

RAbs(a) ==
  <<IAbs(a[1]), a[2]>>

RLe(a, b) ==
  a[1] * b[2] <= b[1] * a[2]

RMaxOf(a, b) ==
  IF RLe(a, b) THEN b ELSE a

\* x / 2.
RHalf(a) ==
  Rat(a[1], 2 * a[2])

ISqrt(n) ==
  CHOOSE k \in 0..n : k * k = n

\* tf.rsqrt on a positive rational whose numerator and denominator are squares
RSqrt(a) ==
  Rat(ISqrt(a[2]), ISqrt(a[1]))

RECURSIVE RSum(_)
RSum(s) ==
  IF s = <<>> THEN Q(0) ELSE RAdd(Head(s), RSum(Tail(s)))

RECURSIVE IProd(_)
IProd(s) ==
  IF s = <<>> THEN 1 ELSE Head(s) * IProd(Tail(s))

\* ------------------------------------------------------------------------
\* Tensors: [shape, data] with data in row-major order.
\* ------------------------------------------------------------------------
Tensor(shape, data) ==
  [shape |-> shape, data |-> data]

\* integer literals to a tensor
TInt(shape, ints) ==
  Tensor(shape, [k \in 1..Len(ints) |-> Q(ints[k])])

Size(t) ==
  Len(t.data)

LastDim(t) ==
  t.shape[Len(t.shape)]

TMap1(Op(_), t) ==
  Tensor(t.shape, [k \in 1..Size(t) |-> Op(t.data[k])])

TMap2(Op(_, _), a, b) ==
  Tensor(a.shape, [k \in 1..Size(a) |-> Op(a.data[k], b.data[k])])

\* a + b, a - b on tensors of one shape
TAdd(a, b) ==
  TMap2(RAdd, a, b)

TSub(a, b) ==
  TMap2(RSub, a, b)

TMul(a, b) ==
  TMap2(RMul, a, b)

THalf(a) ==
  TMap1(RHalf, a)

\* tf.abs
TAbs(a) ==
  TMap1(RAbs, a)

TNeg(a) ==
  TMap1(RNeg, a)

TLe(a, b) ==
  /\ a.shape = b.shape
  /\ \A k \in 1..Size(a) : RLe(a.data[k], b.data[k])

\* t (+|*) p where p has LastDim(t) elements and broadcasts over the last axis
BCast(Op(_, _), t, p) ==
  Tensor(t.shape,
         [k \in 1..Size(t) |-> Op(t.data[k], p.data[((k - 1) % LastDim(t)) + 1])])

\* tf.matmul of x [B, N] with w [N, M]
MatMul(x, w) ==
  LET B == x.shape[1]
      N == x.shape[2]
      M == w.shape[2]
  IN  Tensor(<<B, M>>,
             [k \in 1..(B * M) |->
                LET b == (k - 1) \div M
                    m == (k - 1) % M
                IN  RSum([n \in 1..N |->
                            RMul(x.data[b * N + n], w.data[(n - 1) * M + m + 1])])])

\* tf.nn.convolution of x [N, H, W, C] with kernel w [KH, KW, C, CO]
\* (cross-correlation), padding "VALID" or "SAME", strides <<sh, sw>>.
OutDim(in, k, pad, s) ==
  IF pad = "VALID" THEN (in - k) \div s + 1 ELSE (in + s - 1) \div s

PadBefore(in, k, pad, s) ==
  IF pad = "VALID" THEN 0
  ELSE LET tot == (OutDim(in, k, pad, s) - 1) * s + k - in
       IN  IF tot > 0 THEN tot \div 2 ELSE 0

Convolution(x, w, padding, strides) ==
  LET N  == x.shape[1]
      H  == x.shape[2]
      W  == x.shape[3]
      C  == x.shape[4]
      KH == w.shape[1]
      KW == w.shape[2]
      CO == w.shape[4]
      OH == OutDim(H, KH, padding, strides[1])
      OW == OutDim(W, KW, padding, strides[2])
      PH == PadBefore(H, KH, padding, strides[1])
      PW == PadBefore(W, KW, padding, strides[2])
      XAt(n, h, ww, c) ==
        IF h < 0 \/ h >= H \/ ww < 0 \/ ww >= W THEN Q(0)
        ELSE x.data[((n * H + h) * W + ww) * C + c + 1]
      WAt(kh, kw, c, co) ==
        w.data[((kh * KW + kw) * C + c) * CO + co + 1]
  IN  Tensor(<<N, OH, OW, CO>>,
             [k \in 1..(N * OH * OW * CO) |->
                LET co == (k - 1) % CO
                    ow == ((k - 1) \div CO) % OW
                    oh == ((k - 1) \div (CO * OW)) % OH
                    n  == (k - 1) \div (CO * OW * OH)
                IN  RSum([j \in 1..(KH * KW * C) |->
                            LET c  == (j - 1) % C
                                kw == ((j - 1) \div C) % KW
                                kh == (j - 1) \div (C * KW)
                            IN  RMul(XAt(n, oh * strides[1] + kh - PH,
                                         ow * strides[2] + kw - PW, c),
                                     WAt(kh, kw, c, co))])])

\* snt.BatchFlatten: [B, d1, ..., dn] -> [B, d1 * ... * dn]
Flatten(t) ==
  Tensor(<<t.shape[1], IProd(Tail(t.shape))>>, t.data)

\* ------------------------------------------------------------------------
\* Python values held in _lower / _upper: a tensor, or a tuple of values.
\* ------------------------------------------------------------------------
NoTensor ==
  Tensor(<<>>, <<>>)

One(t) ==
  [tup |-> FALSE, items |-> <<>>, t |-> t]

Tup(s) ==
  [tup |-> TRUE, items |-> s, t |-> NoTensor]

\* isinstance(v, tuple)
IsTuple(v) ==
  v.tup

\* Optional values: <<>> is None, <<v>> is v
None ==
  <<>>

Some(v) ==
  <<v>>

\* IntervalBounds.__init__
IntervalBounds(lower, upper) ==
  [cls |-> "IntervalBounds", lower |-> lower, upper |-> upper]

\* a Bounds object of another concrete representation
OtherBounds ==
  [cls |-> "AbstractBounds", lower |-> One(NoTensor), upper |-> One(NoTensor)]

\* outcome of a call: the returned object, or the exception raised
Return(obj) ==
  [err |-> "none", out |-> <<obj>>]

Raise(e) ==
  [err |-> e, out |-> <<>>]

\* ------------------------------------------------------------------------
\* Verifiable wrappers (kind + the wrapped module's parameters).
\* ------------------------------------------------------------------------
Wrapper(kind) ==
  [kind |-> kind, w |-> NoTensor, has_bias |-> FALSE, b |-> NoTensor,
   padding |-> "", stride |-> <<>>, fn |-> "",
   mean |-> NoTensor, variance |-> NoTensor, scale |-> None, bias |-> None,
   epsilon |-> Q(0)]

LinearFCWrapper(w, has_bias, b) ==
  [Wrapper("LinearFC") EXCEPT !.w = w, !.has_bias = has_bias, !.b = b]

\* stride is the module's full stride <<1, sh, sw, 1>>
LinearConv2dWrapper(w, has_bias, b, padding, stride) ==
  [Wrapper("LinearConv2d") EXCEPT !.w = w, !.has_bias = has_bias, !.b = b,
                                  !.padding = padding, !.stride = stride]

MonotonicWrapper(fn) ==
  [Wrapper("Monotonic") EXCEPT !.fn = fn]

BatchNormWrapper(mean, variance, scale, bias, epsilon) ==
  [Wrapper("BatchNorm") EXCEPT !.mean = mean, !.variance = variance,
                               !.scale = scale, !.bias = bias,
                               !.epsilon = epsilon]

BatchFlattenWrapper ==
  Wrapper("BatchFlatten")

\* a VerifiableWrapper subclass that propagate_through does not know
UnknownWrapper ==
  Wrapper("Unknown")

\* Monotonic functions a wrapper may carry, each non-decreasing in every
\* argument and returning one tensor.
\*   relu         = lambda x: max(x, 0)
\*   maximum      = lambda a, b: max(a, b)
\*   weighted_sum = lambda *xs: 1 * xs[0] + 2 * xs[1] + ...
FnArity(fn, n) ==
  CASE fn = "relu"         -> n = 1
    [] fn = "maximum"      -> n = 2
    [] fn = "weighted_sum" -> n >= 1

RECURSIVE WSum(_, _)
WSum(ts, k) ==
  LET term == TMap1(LAMBDA v : RMul(Q(k), v), ts[k])
  IN  IF k = 1 THEN term ELSE TAdd(WSum(ts, k - 1), term)

FnEval(fn, args) ==
  CASE fn = "relu"         -> TMap1(LAMBDA v : RMaxOf(v, Q(0)), args[1])
    [] fn = "maximum"      -> TMap2(RMaxOf, args[1], args[2])
    [] fn = "weighted_sum" -> WSum(args, Len(args))

\* fn(*args) on Python values: every argument must be a tensor
FnCall(fn, args) ==
  One(FnEval(fn, [k \in 1..Len(args) |-> args[k].t]))

\* ------------------------------------------------------------------------
\* IntervalBounds
\* ------------------------------------------------------------------------

\* the exception _ensure_singleton raises, "none" when it returns
_ensure_singleton(self) ==
  IF IsTuple(self.lower) \/ IsTuple(self.upper) THEN "ValueError" ELSE "none"

\* combine_with that guards the receiver instead of the operand
combine_with_unguarded_operand(self, bounds) ==
  IF bounds.cls # "IntervalBounds" THEN Raise("NotImplementedError")
  ELSE IF ~IsTuple(self.lower)
    THEN IF _ensure_singleton(self) # "none" THEN Raise(_ensure_singleton(self))
         ELSE Return(IntervalBounds(Tup(<<self.lower, bounds.lower>>),
                                    Tup(<<self.upper, bounds.upper>>)))
    ELSE Return(IntervalBounds(Tup(Append(self.lower.items, bounds.lower)),
                               Tup(Append(self.upper.items, bounds.upper))))

\* combine_with that leaves upper of a singleton receiver unpaired
combine_with_lower_only(self, bounds) ==
  IF bounds.cls # "IntervalBounds" THEN Raise("NotImplementedError")
  ELSE IF _ensure_singleton(bounds) # "none" THEN Raise(_ensure_singleton(bounds))
  ELSE IF ~IsTuple(self.lower)
    THEN IF _ensure_singleton(self) # "none" THEN Raise(_ensure_singleton(self))
         ELSE Return(IntervalBounds(Tup(<<self.lower, bounds.lower>>),
                                    self.upper))
    ELSE Return(IntervalBounds(
           Tup(Append(self.lower.items, bounds.lower)),
           IF IsTuple(self.upper)
             THEN Tup(Append(self.upper.items, bounds.upper))
             ELSE One(Tensor(<<1>> \o self.upper.t.shape,
                             TAdd(self.upper.t, bounds.upper.t).data))))

\* combine_with that puts the new source first
combine_with_prepend(self, bounds) ==
  IF bounds.cls # "IntervalBounds" THEN Raise("NotImplementedError")
  ELSE IF _ensure_singleton(bounds) # "none" THEN Raise(_ensure_singleton(bounds))
  ELSE IF ~IsTuple(self.lower)
    THEN IF _ensure_singleton(self) # "none" THEN Raise(_ensure_singleton(self))
         ELSE Return(IntervalBounds(Tup(<<self.lower, bounds.lower>>),
                                    Tup(<<self.upper, bounds.upper>>)))
    ELSE Return(IntervalBounds(Tup(<<bounds.lower>> \o self.lower.items),
                               Tup(<<bounds.upper>> \o self.upper.items)))

combine_with(self, bounds) ==
  IF bounds.cls # "IntervalBounds" THEN Raise("NotImplementedError")
  ELSE IF _ensure_singleton(bounds) # "none" THEN Raise(_ensure_singleton(bounds))
  ELSE IF ~IsTuple(self.lower)
    THEN IF _ensure_singleton(self) # "none" THEN Raise(_ensure_singleton(self))
         ELSE Return(IntervalBounds(Tup(<<self.lower, bounds.lower>>),
                                    Tup(<<self.upper, bounds.upper>>)))
    ELSE Return(IntervalBounds(
           Tup(Append(self.lower.items, bounds.lower)),
           IF IsTuple(self.upper)
             THEN Tup(Append(self.upper.items, bounds.upper))
             \* tensor + (tensor,): the 1-tuple is packed and broadcast
             ELSE One(Tensor(<<1>> \o self.upper.t.shape,
                             TAdd(self.upper.t, bounds.upper.t).data))))

\* _linear with the radius multiplied by w instead of |w|
_linear_signed_radius(self, w, b) ==
  IF _ensure_singleton(self) # "none" THEN Raise(_ensure_singleton(self))
  ELSE LET c0 == THalf(TAdd(self.lower.t, self.upper.t))
           r0 == THalf(TSub(self.upper.t, self.lower.t))
           c1 == MatMul(c0, w)
           c  == IF b # None THEN BCast(RAdd, c1, b[1]) ELSE c1
           r  == MatMul(r0, w)
       IN  Return(IntervalBounds(One(TSub(c, r)), One(TAdd(c, r))))

\* _linear adding the bias to the radius as well
_linear_bias_in_radius(self, w, b) ==
  IF _ensure_singleton(self) # "none" THEN Raise(_ensure_singleton(self))
  ELSE LET c0 == THalf(TAdd(self.lower.t, self.upper.t))
           r0 == THalf(TSub(self.upper.t, self.lower.t))
           c1 == MatMul(c0, w)
           c  == IF b # None THEN BCast(RAdd, c1, b[1]) ELSE c1
           r1 == MatMul(r0, TAbs(w))
           r  == IF b # None THEN BCast(RAdd, r1, b[1]) ELSE r1
       IN  Return(IntervalBounds(One(TSub(c, r)), One(TAdd(c, r))))

_linear(self, w, b) ==
  IF _ensure_singleton(self) # "none" THEN Raise(_ensure_singleton(self))
  ELSE LET c0 == THalf(TAdd(self.lower.t, self.upper.t))
           r0 == THalf(TSub(self.upper.t, self.lower.t))
           c1 == MatMul(c0, w)
           c  == IF b # None THEN BCast(RAdd, c1, b[1]) ELSE c1
           r  == MatMul(r0, TAbs(w))
       IN  Return(IntervalBounds(One(TSub(c, r)), One(TAdd(c, r))))

_conv2d(self, w, b, padding, strides) ==
  IF _ensure_singleton(self) # "none" THEN Raise(_ensure_singleton(self))
  ELSE LET c0 == THalf(TAdd(self.lower.t, self.upper.t))
           r0 == THalf(TSub(self.upper.t, self.lower.t))
           c1 == Convolution(c0, w, padding, strides)
           c  == IF b # None THEN BCast(RAdd, c1, b[1]) ELSE c1
           r  == Convolution(r0, TAbs(w), padding, strides)
       IN  Return(IntervalBounds(One(TSub(c, r)), One(TAdd(c, r))))

\* _monotonic_fn passing the sources to fn in reverse
_monotonic_fn_reversed(self, fn) ==
  LET Rev(s) == [k \in 1..Len(s) |-> s[Len(s) + 1 - k]]
  IN  IF IsTuple(self.lower)
        THEN IF ~IsTuple(self.upper) THEN Raise("AssertionError")
             ELSE Return(IntervalBounds(FnCall(fn, Rev(self.lower.items)),
                                        FnCall(fn, Rev(self.upper.items))))
        ELSE IF _ensure_singleton(self) # "none" THEN Raise(_ensure_singleton(self))
             ELSE Return(IntervalBounds(FnCall(fn, <<self.lower>>),
                                        FnCall(fn, <<self.upper>>)))

_monotonic_fn(self, fn) ==
  IF IsTuple(self.lower)
    THEN IF ~IsTuple(self.upper) THEN Raise("AssertionError")
         ELSE Return(IntervalBounds(FnCall(fn, self.lower.items),
                                    FnCall(fn, self.upper.items)))
    ELSE IF _ensure_singleton(self) # "none" THEN Raise(_ensure_singleton(self))
         ELSE Return(IntervalBounds(FnCall(fn, <<self.lower>>),
                                    FnCall(fn, <<self.upper>>)))

\* multiplier and bias of the folded element-wise affine map
BatchNormMultiplier(variance, scale, epsilon) ==
  LET m0 == TMap1(LAMBDA v : RSqrt(RAdd(v, epsilon)), variance)
  IN  IF scale # None THEN TMul(m0, scale[1]) ELSE m0

BatchNormBias(multiplier, mean, bias) ==
  LET b0 == TMul(TNeg(multiplier), mean)
      b1 == IF bias # None THEN TAdd(b0, bias[1]) ELSE b0
  IN  \* tf.squeeze(b, axis=0)
      Tensor(Tail(b1.shape), b1.data)

\* _batch_norm assuming a positive scale: the radius multiplied by w
_batch_norm_signed_radius(self, mean, variance, scale, bias, epsilon) ==
  IF _ensure_singleton(self) # "none" THEN Raise(_ensure_singleton(self))
  ELSE LET w  == BatchNormMultiplier(variance, scale, epsilon)
           b  == BatchNormBias(w, mean, bias)
           c0 == THalf(TAdd(self.lower.t, self.upper.t))
           r0 == THalf(TSub(self.upper.t, self.lower.t))
           c  == BCast(RAdd, BCast(RMul, c0, w), b)
           r  == BCast(RMul, r0, w)
       IN  Return(IntervalBounds(One(TSub(c, r)), One(TAdd(c, r))))

_batch_norm(self, mean, variance, scale, bias, epsilon) ==
  IF _ensure_singleton(self) # "none" THEN Raise(_ensure_singleton(self))
  ELSE LET w  == BatchNormMultiplier(variance, scale, epsilon)
           b  == BatchNormBias(w, mean, bias)
           c0 == THalf(TAdd(self.lower.t, self.upper.t))
           r0 == THalf(TSub(self.upper.t, self.lower.t))
           c  == BCast(RAdd, BCast(RMul, c0, w), b)
           r  == BCast(RMul, r0, TAbs(w))
       IN  Return(IntervalBounds(One(TSub(c, r)), One(TAdd(c, r))))

\* _batch_flatten without the guard: a tuple is flattened item by item
_batch_flatten_each(self) ==
  IF IsTuple(self.lower) /\ IsTuple(self.upper)
    THEN Return(IntervalBounds(
           Tup([k \in 1..Len(self.lower.items) |-> One(Flatten(self.lower.items[k].t))]),
           Tup([k \in 1..Len(self.upper.items) |-> One(Flatten(self.upper.items[k].t))])))
    ELSE Return(IntervalBounds(One(Flatten(self.lower.t)),
                               One(Flatten(self.upper.t))))

_batch_flatten(self) ==
  IF _ensure_singleton(self) # "none" THEN Raise(_ensure_singleton(self))
  ELSE Return(IntervalBounds(One(Flatten(self.lower.t)),
                             One(Flatten(self.upper.t))))

\* ------------------------------------------------------------------------
\* AbstractBounds.propagate_through: the handler invoked and its outcome
\* ------------------------------------------------------------------------
Via(handler, outcome) ==
  [handler |-> handler, err |-> outcome.err, out |-> outcome.out]

\* propagate_through whose last branch is a plain else
propagate_through_open(self, wrapper) ==
  LET module == wrapper
  IN  IF wrapper.kind = "LinearFC"
        THEN Via("_linear",
                 _linear(self, module.w,
                         IF module.has_bias THEN Some(module.b) ELSE None))
      ELSE IF wrapper.kind = "LinearConv2d"
        THEN Via("_conv2d",
                 _conv2d(self, module.w,
                         IF module.has_bias THEN Some(module.b) ELSE None,
                         module.padding,
                         SubSeq(module.stride, 2, Len(module.stride) - 1)))
      ELSE IF wrapper.kind = "Monotonic"
        THEN Via("_monotonic_fn", _monotonic_fn(self, module.fn))
      ELSE IF wrapper.kind = "BatchNorm"
        THEN Via("_batch_norm",
                 _batch_norm(self, module.mean, module.variance, module.scale,
                             module.bias, module.epsilon))
      ELSE Via("_batch_flatten", _batch_flatten(self))

propagate_through(self, wrapper) ==
  LET module == wrapper
  IN  IF wrapper.kind = "LinearFC"
        THEN Via("_linear",
                 _linear(self, module.w,
                         IF module.has_bias THEN Some(module.b) ELSE None))
      ELSE IF wrapper.kind = "LinearConv2d"
        THEN Via("_conv2d",
                 _conv2d(self, module.w,
                         IF module.has_bias THEN Some(module.b) ELSE None,
                         module.padding,
                         SubSeq(module.stride, 2, Len(module.stride) - 1)))
      ELSE IF wrapper.kind = "Monotonic"
        THEN Via("_monotonic_fn", _monotonic_fn(self, module.fn))
      ELSE IF wrapper.kind = "BatchNorm"
        THEN Via("_batch_norm",
                 _batch_norm(self, module.mean, module.variance, module.scale,
                             module.bias, module.epsilon))
      ELSE IF wrapper.kind = "BatchFlatten"
        THEN Via("_batch_flatten", _batch_flatten(self))
      ELSE Via("none", Raise("NotImplementedError"))

\* ------------------------------------------------------------------------
\* The real layer operations, applied to a concrete value (one tensor, or
\* one tensor per source when several inputs are merged).
\* ------------------------------------------------------------------------
LinearApply(m, x) ==
  LET y == MatMul(x, m.w)
  IN  IF m.has_bias THEN BCast(RAdd, y, m.b) ELSE y

Conv2dApply(m, x) ==
  LET y == Convolution(x, m.w, m.padding, SubSeq(m.stride, 2, Len(m.stride) - 1))
  IN  IF m.has_bias THEN BCast(RAdd, y, m.b) ELSE y

\* (x - mean) / sqrt(variance + epsilon) * scale + bias
BatchNormApply(m, x) ==
  LET inv == TMap1(LAMBDA v : RSqrt(RAdd(v, m.epsilon)), m.variance)
      n0  == BCast(RMul, BCast(RSub, x, m.mean), inv)
      n1  == IF m.scale # None THEN BCast(RMul, n0, m.scale[1]) ELSE n0
  IN  IF m.bias # None THEN BCast(RAdd, n1, m.bias[1]) ELSE n1

ModuleApply(wrapper, x) ==
  CASE wrapper.kind = "LinearFC"     -> LinearApply(wrapper, x)
    [] wrapper.kind = "LinearConv2d" -> Conv2dApply(wrapper, x)
    [] wrapper.kind = "BatchNorm"    -> BatchNormApply(wrapper, x)
    [] wrapper.kind = "BatchFlatten" -> Flatten(x)
    [] OTHER                         -> x

\* A Monotonic module takes the sources as its arguments; any other module
\* takes one tensor (given several, it is applied to each).
LayerApply(wrapper, p) ==
  IF wrapper.kind = "Monotonic"
    THEN FnCall(wrapper.fn, IF IsTuple(p) THEN p.items ELSE <<p>>)
  ELSE IF IsTuple(p)
    THEN Tup([k \in 1..Len(p.items) |-> One(ModuleApply(wrapper, p.items[k].t))])
  ELSE One(ModuleApply(wrapper, p.t))

\* the concrete values of the merged sources, in merge order
SourcesApply(p, q) ==
  IF IsTuple(p) THEN Tup(Append(p.items, q)) ELSE Tup(<<p, q>>)

\* ------------------------------------------------------------------------
\* The layers and the input boxes the traversals draw from.
\* ------------------------------------------------------------------------
MaxObjs == 4

Layers ==
  << LinearFCWrapper(TInt(<<2, 1>>, <<2, 0>>), TRUE, TInt(<<1>>, <<1>>)),
     LinearFCWrapper(TInt(<<2, 2>>, <<-2, 1, 0, -1>>), FALSE, NoTensor),
     LinearFCWrapper(TInt(<<1, 1>>, <<-2>>), TRUE, TInt(<<1>>, <<0>>)),
     LinearConv2dWrapper(TInt(<<1, 2, 1, 1>>, <<1, -2>>), TRUE, TInt(<<1>>, <<1>>),
                         "SAME", <<1, 1, 1, 1>>),
     LinearConv2dWrapper(TInt(<<1, 2, 1, 1>>, <<-1, 1>>), FALSE, NoTensor,
                         "VALID", <<1, 1, 1, 1>>),
     LinearConv2dWrapper(TInt(<<1, 1, 1, 1>>, <<-3>>), FALSE, NoTensor,
                         "SAME", <<1, 1, 2, 1>>),
     MonotonicWrapper("relu"),
     MonotonicWrapper("maximum"),
     MonotonicWrapper("weighted_sum"),
     BatchNormWrapper(TInt(<<1, 1>>, <<0>>), TInt(<<1, 1>>, <<3>>),
                      Some(TInt(<<1, 1>>, <<2>>)), Some(TInt(<<1, 1>>, <<0>>)), Q(1)),
     BatchNormWrapper(TInt(<<1, 2>>, <<1, 0>>), TInt(<<1, 2>>, <<0, 3>>),
                      Some(TInt(<<1, 2>>, <<-2, 1>>)), None, Q(1)),
     BatchNormWrapper(TInt(<<1, 1>>, <<1>>), TInt(<<1, 1>>, <<3>>),
                      None, Some(TInt(<<1, 1>>, <<1>>)), Q(1)),
     BatchFlattenWrapper,
     UnknownWrapper >>

Shapes ==
  { <<1, 1, 2, 1>>, <<1, 2>> }

\* <<lower, upper>> of the two input boxes, lower <= upper elementwise
InitBoxes ==
  << << <<1, -1>>, <<3, 0>> >>,
     << <<-2, -1>>, <<-2, 1>> >> >>

\* the integer points of a box
GridPoints(shape, box) ==
  LET n  == Len(box[1])
      lo == CHOOSE v \in {box[1][k] : k \in 1..n} : \A k \in 1..n : v <= box[1][k]
      hi == CHOOSE v \in {box[2][k] : k \in 1..n} : \A k \in 1..n : v >= box[2][k]
  IN  { One(TInt(shape, f)) :
          f \in { g \in [1..n -> lo..hi] :
                    \A k \in 1..n : box[1][k] <= g[k] /\ g[k] <= box[2][k] } }

\* the shapes and arity the tensor operations of a handler need
SameShapes(args) ==
  \A k \in 1..Len(args) : ~IsTuple(args[k]) /\ args[k].t.shape = args[1].t.shape

WellFormed(self, wrapper) ==
  IF wrapper.kind = "Monotonic"
    THEN IF IsTuple(self.lower) # IsTuple(self.upper) THEN TRUE
         ELSE LET lo == IF IsTuple(self.lower) THEN self.lower.items ELSE <<self.lower>>
                  up == IF IsTuple(self.upper) THEN self.upper.items ELSE <<self.upper>>
              IN  /\ Len(lo) = Len(up)
                  /\ FnArity(wrapper.fn, Len(lo))
                  /\ SameShapes(lo)
                  /\ SameShapes(up)
  ELSE IF _ensure_singleton(self) # "none" \/ wrapper.kind = "Unknown" THEN TRUE
  ELSE LET x == self.lower.t
       IN  CASE wrapper.kind = "LinearFC" ->
                  /\ Len(x.shape) = 2
                  /\ x.shape[2] = wrapper.w.shape[1]
             [] wrapper.kind = "LinearConv2d" ->
                  /\ Len(x.shape) = 4
                  /\ x.shape[4] = wrapper.w.shape[3]
                  /\ x.shape[2] >= wrapper.w.shape[1]
                  /\ x.shape[3] >= wrapper.w.shape[2]
             [] wrapper.kind = "BatchNorm" ->
                  LastDim(x) = Size(wrapper.mean)
             [] wrapper.kind = "BatchFlatten" ->
                  Len(x.shape) >= 2

\* ------------------------------------------------------------------------
\* State
\* ------------------------------------------------------------------------
VARIABLES
  heap,    \* the Bounds objects created so far, by identity
  conc,    \* per object, the concrete values it stands for
  layers,  \* the wrappers of the network
  origin,  \* per object, the call that returned it and the objects merged in it
  last     \* the most recent call and its outcome

vars == <<heap, conc, layers, origin, last>>

Objs ==
  1..Len(heap)

Call(op, self, arg, handler, err, ret) ==
  [op |-> op, self |-> self, arg |-> arg, handler |-> handler,
   err |-> err, ret |-> ret]

\* the call that made an object; srcs lists, in merge order, the objects whose
\* bounds it tracks (itself when it tracks one input)
Made(op, self, arg, srcs) ==
  [op |-> op, self |-> self, arg |-> arg, srcs |-> srcs]

Init ==
  \E shape \in Shapes :
    LET boxA == InitBoxes[1]
        boxB == InitBoxes[2]
    IN
    /\ heap = << IntervalBounds(One(TInt(shape, boxA[1])), One(TInt(shape, boxA[2]))),
                 IntervalBounds(One(TInt(shape, boxB[1])), One(TInt(shape, boxB[2]))) >>
    /\ conc = << GridPoints(shape, boxA), GridPoints(shape, boxB) >>
    /\ layers = Layers
    /\ origin = << Made("__init__", 0, 0, <<1>>), Made("__init__", 0, 0, <<2>>) >>
    /\ last = Call("__init__", 0, 0, "none", "none", 2)

\* heap[i].propagate_through(layers[k])
PropagateThrough(i, k) ==
  LET res == propagate_through(heap[i], layers[k])
  IN  /\ WellFormed(heap[i], layers[k])
      /\ IF res.err = "none"
           THEN /\ heap' = Append(heap, res.out[1])
                /\ conc' = Append(conc, {LayerApply(layers[k], p) : p \in conc[i]})
                /\ origin' = Append(origin, Made("propagate_through", i, k,
                                                 <<Len(heap) + 1>>))
                /\ last' = Call("propagate_through", i, k, res.handler, "none",
                                Len(heap) + 1)
           ELSE /\ last' = Call("propagate_through", i, k, res.handler, res.err, 0)
                /\ UNCHANGED <<heap, conc, origin>>
      /\ UNCHANGED layers

\* combine_with extending the receiver in place and returning it
CombineWithInPlace(i, j) ==
  LET bounds == IF j = 0 THEN OtherBounds ELSE heap[j]
      res    == combine_with(heap[i], bounds)
  IN  /\ IF res.err = "none"
           THEN /\ heap' = [heap EXCEPT ![i] = res.out[1]]
                /\ conc' = [conc EXCEPT ![i] = {SourcesApply(p, q) :
                                                  p \in conc[i], q \in conc[j]}]
                /\ origin' = [origin EXCEPT ![i] = Made("combine_with", i, j,
                                                        Append(origin[i].srcs, j))]
                /\ last' = Call("combine_with", i, j, "none", "none", i)
           ELSE /\ last' = Call("combine_with", i, j, "none", res.err, 0)
                /\ UNCHANGED <<heap, conc, origin>>
      /\ UNCHANGED layers

\* heap[i].combine_with(heap[j]); j = 0 passes a Bounds of another class
CombineWith(i, j) ==
  LET bounds == IF j = 0 THEN OtherBounds ELSE heap[j]
      res    == combine_with(heap[i], bounds)
  IN  /\ IF res.err = "none"
           THEN /\ heap' = Append(heap, res.out[1])
                /\ conc' = Append(conc, {SourcesApply(p, q) :
                                           p \in conc[i], q \in conc[j]})
                /\ origin' = Append(origin, Made("combine_with", i, j,
                                                 Append(origin[i].srcs, j)))
                /\ last' = Call("combine_with", i, j, "none", "none", Len(heap) + 1)
           ELSE /\ last' = Call("combine_with", i, j, "none", res.err, 0)
                /\ UNCHANGED <<heap, conc, origin>>
      /\ UNCHANGED layers

\* An exception is never caught: it ends the traversal.  Calls are made
\* while fewer than MaxObjs objects exist.
Running ==
  /\ last.err = "none"
  /\ Len(heap) < MaxObjs

Next ==
  \/ \E i \in Objs, k \in 1..Len(layers) : Running /\ PropagateThrough(i, k)
  \/ \E i \in Objs, j \in 0..Len(heap) : Running /\ CombineWith(i, j)

Spec ==
  Init /\ [][Next]_vars

\* ------------------------------------------------------------------------
\* Properties
\* ------------------------------------------------------------------------
IsMulti(b) ==
  IsTuple(b.lower) \/ IsTuple(b.upper)

SingleSourceKinds ==
  {"LinearFC", "LinearConv2d", "BatchNorm", "BatchFlatten"}

\* The objects the latest call returned (the input bounds at the start).
\* An object is examined in the state where it is returned; C8 shows that it
\* is never changed afterwards.
Fresh ==
  IF last.op = "__init__" THEN Objs
  ELSE IF last.err = "none" THEN {last.ret}
  ELSE {}

\* value p lies elementwise between lo and up (source by source for tuples)
Within(lo, p, up) ==
  IF IsTuple(p)
    THEN /\ IsTuple(lo) /\ IsTuple(up)
         /\ Len(lo.items) = Len(p.items) /\ Len(up.items) = Len(p.items)
         /\ \A k \in 1..Len(p.items) :
              /\ TLe(lo.items[k].t, p.items[k].t)
              /\ TLe(p.items[k].t, up.items[k].t)
    ELSE /\ ~IsTuple(lo) /\ ~IsTuple(up)
         /\ TLe(lo.t, p.t)
         /\ TLe(p.t, up.t)

\* C1: soundness.  Every concrete value obtained by applying the real layer
\* operations, in order, to concrete inputs inside the initial boxes lies
\* elementwise inside the bounds that propagate_through computed for the
\* same layers.
C1_Soundness ==
  \A i \in Fresh : \A p \in conc[i] : Within(heap[i].lower, p, heap[i].upper)

\* two layers deep, the second a linear layer with a negative weight, on a
\* box that is not a single point
C1_Witness ==
  /\ Len(heap) = 4
  /\ last.handler = "_linear" /\ last.err = "none" /\ last.arg = 2
  /\ origin[last.self].op = "propagate_through"
  /\ Cardinality(conc[4]) > 1
  /\ heap[4].lower # heap[4].upper

\* lower <= upper, source by source
Ordered(b) ==
  IF IsTuple(b.lower)
    THEN /\ IsTuple(b.upper) /\ Len(b.lower.items) = Len(b.upper.items)
         /\ \A k \in 1..Len(b.lower.items) :
              TLe(b.lower.items[k].t, b.upper.items[k].t)
    ELSE ~IsTuple(b.upper) /\ TLe(b.lower.t, b.upper.t)

\* C2: ordering invariant.  Every Bounds produced from ordered initial bounds
\* by propagate_through and combine_with has lower <= upper for every element
\* of every source, also after negative weights or a negative batch-norm scale.
C2_Ordered ==
  \A i \in Objs : Ordered(heap[i])

\* a batch-norm layer with a negative multiplier applied to a proper interval
C2_Witness ==
  /\ last.handler = "_batch_norm" /\ last.err = "none" /\ last.arg = 11
  /\ heap[last.self].lower # heap[last.self].upper
  /\ \E k \in 1..Size(heap[last.ret].lower.t) :
       ~RLe(heap[last.ret].upper.t.data[k], heap[last.ret].lower.t.data[k])

\* C3: singleton guard.  propagate_through of multi-source bounds through a
\* LinearFC, LinearConv2d, BatchNorm or BatchFlatten wrapper raises the
\* ValueError of _ensure_singleton and returns nothing; a call on a
\* multi-source receiver that succeeds is combine_with or a Monotonic
\* propagation.
C3_SingletonGuard ==
  /\ (/\ last.op = "propagate_through"
      /\ IsMulti(heap[last.self])
      /\ layers[last.arg].kind \in SingleSourceKinds)
       => (last.err = "ValueError" /\ last.ret = 0)
  /\ \A i \in Objs :
       (origin[i].op # "__init__" /\ IsMulti(heap[origin[i].self]))
         => \/ origin[i].op = "combine_with"
            \/ layers[origin[i].arg].kind = "Monotonic"

\* a batch-flatten of multi-source bounds was attempted
C3_Witness ==
  /\ last.op = "propagate_through"
  /\ IsMulti(heap[last.self])
  /\ layers[last.arg].kind = "BatchFlatten"
  /\ last.err = "ValueError"

\* the lower (upper) bounds of the merged sources, in merge order
SourceLowers(i) ==
  [k \in 1..Len(origin[i].srcs) |-> heap[origin[i].srcs[k]].lower]

SourceUppers(i) ==
  [k \in 1..Len(origin[i].srcs) |-> heap[origin[i].srcs[k]].upper]

\* C4: combine_with preserves source order.  After k successful calls
\* A.combine_with(B1)...combine_with(Bk) the result's lower is the tuple
\* (A.lower, B1.lower, ..., Bk.lower) and its upper the tuple
\* (A.upper, B1.upper, ..., Bk.upper), of length k + 1; each call appends the
\* new source last.
C4_CombineOrder ==
  \A i \in Objs :
    origin[i].op = "combine_with" =>
      /\ heap[i].lower = Tup(SourceLowers(i))
      /\ heap[i].upper = Tup(SourceUppers(i))
      /\ Len(origin[i].srcs) = Len(origin[origin[i].self].srcs) + 1
      /\ origin[i].srcs[Len(origin[i].srcs)] = origin[i].arg
      /\ (~IsMulti(heap[origin[i].self]) => Len(heap[i].lower.items) = 2)

\* three sources merged by two calls, neighbours carrying different bounds
C4_Witness ==
  \E i \in Objs :
    /\ origin[i].op = "combine_with"
    /\ Len(heap[i].lower.items) = 3
    /\ heap[i].lower.items[1] # heap[i].lower.items[2]
    /\ heap[i].lower.items[2] # heap[i].lower.items[3]
    /\ heap[i].upper.items[1] # heap[i].upper.items[2]

\* C5: combine_with rejects a multi-source operand, whatever the receiver:
\* the call raises the ValueError of _ensure_singleton and returns nothing,
\* and no Bounds holds a tuple inside a tuple.
C5_OperandSingleton ==
  /\ (/\ last.op = "combine_with"
      /\ last.arg # 0
      /\ IsMulti(heap[last.arg]))
       => (last.err = "ValueError" /\ last.ret = 0)
  /\ \A i \in Objs :
       /\ \A k \in 1..Len(heap[i].lower.items) : ~IsTuple(heap[i].lower.items[k])
       /\ \A k \in 1..Len(heap[i].upper.items) : ~IsTuple(heap[i].upper.items[k])

\* A.combine_with(B.combine_with(C)): singleton receiver, multi-source operand
C5_Witness ==
  /\ last.op = "combine_with"
  /\ last.arg # 0
  /\ ~IsMulti(heap[last.self])
  /\ IsMulti(heap[last.arg])
  /\ last.err = "ValueError"

HandlerOf(kind) ==
  CASE kind = "LinearFC"     -> "_linear"
    [] kind = "LinearConv2d" -> "_conv2d"
    [] kind = "Monotonic"    -> "_monotonic_fn"
    [] kind = "BatchNorm"    -> "_batch_norm"
    [] kind = "BatchFlatten" -> "_batch_flatten"
    [] OTHER                 -> "none"

\* C6: closed dispatch.  propagate_through invokes the handler of the
\* wrapper's kind and no other; for a wrapper outside the five kinds it
\* raises NotImplementedError, invokes no handler and returns nothing, and
\* no object is ever made from such a wrapper.
C6_ClosedDispatch ==
  /\ last.op = "propagate_through" =>
       /\ last.handler = HandlerOf(layers[last.arg].kind)
       /\ (layers[last.arg].kind \notin SingleSourceKinds \cup {"Monotonic"})
            => (last.err = "NotImplementedError" /\ last.ret = 0)
       /\ last.err = "NotImplementedError" => last.handler = "none"
  /\ \A i \in Objs :
       origin[i].op = "propagate_through" =>
         layers[origin[i].arg].kind \in SingleSourceKinds \cup {"Monotonic"}

\* an unknown wrapper was passed after a successful step
C6_Witness ==
  /\ last.op = "propagate_through"
  /\ layers[last.arg].kind = "Unknown"
  /\ last.err = "NotImplementedError"
  /\ Len(heap) > 2

\* the corners of the box [lo, up]
Corners(lo, up) ==
  { Tensor(lo.shape, [k \in 1..Size(lo) |-> IF k \in S THEN up.data[k] ELSE lo.data[k]]) :
      S \in SUBSET (1..Size(lo)) }

\* elementwise minimum / maximum of a finite set of tensors of one shape
MinOver(ts) ==
  LET any == CHOOSE t \in ts : TRUE
  IN  Tensor(any.shape,
             [k \in 1..Size(any) |->
                (CHOOSE t \in ts : \A u \in ts : RLe(t.data[k], u.data[k])).data[k]])

MaxOver(ts) ==
  LET any == CHOOSE t \in ts : TRUE
  IN  Tensor(any.shape,
             [k \in 1..Size(any) |->
                (CHOOSE t \in ts : \A u \in ts : RLe(u.data[k], t.data[k])).data[k]])

\* C7: linear propagation is exact.  After a successful LinearFC step each
\* output element's lower (upper) bound is the minimum (maximum) of x.w + b
\* over the input box (attained at a corner, the map being affine), and the
\* output width is the width the same layer gives without its bias.
C7_LinearExact ==
  (last.handler = "_linear" /\ last.err = "none") =>
    LET self   == heap[last.self]
        m      == layers[last.arg]
        out    == heap[last.ret]
        images == {LinearApply(m, x) : x \in Corners(self.lower.t, self.upper.t)}
        plain  == {LinearApply([m EXCEPT !.has_bias = FALSE], x) :
                     x \in Corners(self.lower.t, self.upper.t)}
    IN  /\ out.lower = One(MinOver(images))
        /\ out.upper = One(MaxOver(images))
        /\ TSub(out.upper.t, out.lower.t) = TSub(MaxOver(plain), MinOver(plain))

\* w = 2, b = 1 on [1, 3] gives [3, 7]
C7_Witness ==
  /\ last.handler = "_linear" /\ last.err = "none" /\ last.arg = 1
  /\ heap[last.self].lower.t.data[1] = Q(1)
  /\ heap[last.self].upper.t.data[1] = Q(3)
  /\ heap[last.ret].lower = One(TInt(<<1, 1>>, <<3>>))
  /\ heap[last.ret].upper = One(TInt(<<1, 1>>, <<7>>))

\* C8: immutable value semantics.  A call, successful or not, changes no
\* existing Bounds object and no wrapper; a successful call returns a new
\* object.
C8_Immutable ==
  [][ /\ \A i \in Objs : i \in DOMAIN heap' /\ heap'[i] = heap[i]
      /\ layers' = layers
      /\ last'.err = "none" => (Len(heap') = Len(heap) + 1 /\ last'.ret = Len(heap'))
      /\ last'.err # "none" => (heap' = heap /\ last'.ret = 0) ]_vars

\* a combine_with on a multi-source receiver has returned
C8_Witness ==
  /\ last.op = "combine_with" /\ last.err = "none"
  /\ IsMulti(heap[last.self])
  /\ heap[last.ret] # heap[last.self]

C10_ShapeAgreement ==
  /\ \A i \in Objs :
       /\ IsTuple(heap[i].lower) = IsTuple(heap[i].upper)
       /\ Len(heap[i].lower.items) = Len(heap[i].upper.items)
  /\ last.err # "AssertionError"

\* a Monotonic step has succeeded on bounds merged from two sources
C10_Witness ==
  /\ last.handler = "_monotonic_fn" /\ last.err = "none"
  /\ IsTuple(heap[last.self].lower)
  /\ Len(heap[last.self].upper.items) = 2
  /\ Len(heap) = 4

====
